---- MODULE Spec2Model ----
(***************************************************************************)
(* A model of rangers-utils: the BlockPar tree (rangers/blockpar), its     *)
(* binary and text codecs, the path lookups, and the Buffer cipher / hash  *)
(* / container load of rangers/io.                                         *)
(*                                                                         *)
(* A Python str is a sequence of code points (integers); a byte string is  *)
(* a sequence of integers in 0..255.  BlockPar objects live in a heap      *)
(* (a sequence of containers, the object id being the index); a node's     *)
(* content is the str in `content` for a PARAM and the object id in        *)
(* `child` for a BLOCK.                                                    *)
(***************************************************************************)
EXTENDS Integers, Sequences, FiniteSets, TLC

VARIABLES objs, last, calls, pc, stream, loaded, visit, txt, ret, buf, bpos, key, orig, log,
          sinks, depth, resaved

(* the variables the calls on a tree or on a file leave alone once set *)
other == <<sinks, depth, resaved>>

vars == <<objs, last, calls, pc, stream, loaded, visit, txt, ret, buf, bpos, key, orig, log,
          sinks, depth, resaved>>

-----------------------------------------------------------------------------
(* Bounds of the model *)

MaxCalls == 3

(* ElementKind *)
EMPTY == 0
PARAM == 1
BLOCK == 2

(* Characters the text codec names *)
TAB == 9
LF == 10
CR == 13
SP == 32

(* The keys and the parameter values the callers use: "a", "b"; "x" and the
   three lines "x\r\n\r\ny", the middle one blank *)
Names == {<<97>>, <<98>>}
Vals == {<<120>>, <<120, 13, 10, 13, 10, 121>>}

-----------------------------------------------------------------------------
(* Sequences *)

RECURSIVE Concat(_)
Concat(ss) == IF ss = <<>> THEN <<>> ELSE Head(ss) \o Concat(Tail(ss))

(* str < str, by code point *)
RECURSIVE StrLess(_, _)
StrLess(a, b) ==
  IF a = <<>> THEN b # <<>>
  ELSE IF b = <<>> THEN FALSE
  ELSE IF Head(a) # Head(b) THEN Head(a) < Head(b)
  ELSE StrLess(Tail(a), Tail(b))

(* sorted(items, key=lambda k: k[0]): a stable sort on the name *)
RECURSIVE InsertByKey(_, _)
InsertByKey(s, e) ==
  IF s = <<>> THEN <<e>>
  ELSE IF StrLess(e.name, Head(s).name) THEN <<e>> \o s
  ELSE <<Head(s)>> \o InsertByKey(Tail(s), e)

RECURSIVE SortFrom(_, _)
SortFrom(acc, s) ==
  IF s = <<>> THEN acc ELSE SortFrom(InsertByKey(acc, Head(s)), Tail(s))

SortByKey(s) == SortFrom(<<>>, s)

-----------------------------------------------------------------------------
(* MultiDict of BlockParNode: a sequence of nodes in insertion order *)

Node(name, kind, content, child) ==
  [name |-> name, kind |-> kind, content |-> content, child |-> child, count |-> 0]

ParNode(name, content) == Node(name, PARAM, content, 0)
BlockNode(name, child) == Node(name, BLOCK, <<>>, child)

NewBlockPar(sort) == [sorted |-> sort, map |-> <<>>]

Contains(m, name) == \E i \in 1..Len(m) : m[i].name = name

(* index of the first node under name (MultiDict.getone) *)
FirstIdx(m, name) == CHOOSE i \in 1..Len(m) :
  m[i].name = name /\ \A j \in 1..(i - 1) : m[j].name # name

getall(m, name) == SelectSeq(m, LAMBDA n : n.name = name)

(* MultiDict.add *)
MapAdd(m, node) == Append(m, node)

(* MultiDict.__setitem__: the first node under the name is replaced in place
   and the others under it are removed; a new name is appended *)
MapSetItem(m, node) ==
  IF ~Contains(m, node.name) THEN Append(m, node)
  ELSE LET f == FirstIdx(m, node.name)
           head == [i \in 1..f |-> IF i = f THEN node ELSE m[i]]
           tail == SelectSeq(SubSeq(m, f + 1, Len(m)), LAMBDA n : n.name # node.name)
       IN head \o tail

(* first = self._map.getone(name); first.count += 1 *)
BumpFirst(m, name) ==
  LET f == FirstIdx(m, name) IN [m EXCEPT ![f].count = @ + 1]

-----------------------------------------------------------------------------
(* BlockPar mutations, on the container id of heap h *)

addMutant(h, id, node) == [h EXCEPT ![id].map = MapSetItem(h[id].map, node)]

add(h, id, node) ==
  LET m == MapAdd(h[id].map, node)
  IN [h EXCEPT ![id].map = IF h[id].sorted THEN BumpFirst(m, node.name) ELSE m]

setMutant(h, id, node) == [h EXCEPT ![id].map = MapAdd(h[id].map, node)]

set(h, id, node) == [h EXCEPT ![id].map = MapSetItem(h[id].map, node)]

add_par(h, id, name, content) == add(h, id, ParNode(name, content))

(* returns the heap; the new BlockPar is the last object of it *)
add_block(h, id, name, sort) ==
  add(Append(h, NewBlockPar(sort)), id, BlockNode(name, Len(h) + 1))

(* del self[name]: MultiDict.__delitem__ removes every node under the name *)
delitem(h, id, name) ==
  [h EXCEPT ![id].map = SelectSeq(@, LAMBDA n : n.name # name)]

clear(h, id) == [h EXCEPT ![id] = NewBlockPar(TRUE)]

-----------------------------------------------------------------------------
(* Structural equality: the tree under a container, its entries grouped by
   key with the insertion order kept inside each key; parent references,
   comments and counts are left out *)

RECURSIVE Canon(_, _)
Canon(h, id) ==
  LET m == SortByKey(h[id].map)
  IN [sorted |-> h[id].sorted,
      items |-> [i \in 1..Len(m) |->
                  [name |-> m[i].name, kind |-> m[i].kind, content |-> m[i].content,
                   child |-> IF m[i].kind = BLOCK THEN <<Canon(h, m[i].child)>> ELSE <<>>]]]

-----------------------------------------------------------------------------
(* AbstractIO: the typed little-endian writes, each the bytes it appends *)

add_bool(v) == <<IF v THEN 1 ELSE 0>>

add_byte(v) == <<v>>

(* pack('<i', v): the two's-complement bytes, low byte first *)
add_int(v) ==
  <<v % 256, (v \div 256) % 256, (v \div 65536) % 256, (v \div 16777216) % 256>>

add_widestr(v) ==
  Concat([i \in 1..Len(v) |-> <<v[i] % 256, v[i] \div 256>>]) \o <<0, 0>>

(* AbstractIO: the typed reads of the bytes s at the 0-based offset pos *)

get_int(s, pos) ==
  s[pos + 1] + 256 * s[pos + 2] + 65536 * s[pos + 3]
    + 16777216 * (IF s[pos + 4] >= 128 THEN s[pos + 4] - 256 ELSE s[pos + 4])

(* offset of the first zero unit, in steps of two from p; -1 when the bytes
   end before one is read *)
RECURSIVE ScanZero(_, _)
RECURSIVE ScanZeroMutant(_, _)
ScanZeroMutant(s, p) ==
  IF p + 2 > Len(s) THEN -1
  ELSE IF s[p + 1] = 0 /\ s[p + 2] = 0 THEN p
  ELSE ScanZeroMutant(s, p + 1)

ScanZero(s, p) ==
  IF p + 2 > Len(s) THEN -1
  ELSE IF s[p + 1] = 0 /\ s[p + 2] = 0 THEN p
  ELSE ScanZero(s, p + 2)

get_widestr(s, pos) ==
  LET q == ScanZero(s, pos)
  IN IF q = -1 THEN [str |-> <<>>, pos |-> IF pos > Len(s) THEN pos ELSE Len(s)]
     ELSE [str |-> [i \in 1..((q - pos) \div 2) |->
                     s[pos + 2 * i - 1] + 256 * s[pos + 2 * i]],
           pos |-> q + 2]

-----------------------------------------------------------------------------
(* BlockPar.__iter__, BlockPar.save, BlockPar.load *)

iter(c) ==
  LET source == IF c.sorted THEN SortByKey(c.map) ELSE c.map
  IN [i \in 1..Len(source) |-> source[i]]

(* sorted(self._map.keys()): MultiDict.keys() holds a key once per entry *)
SortedKeys(m) == LET srt == SortByKey(m) IN [i \in 1..Len(srt) |-> srt[i].name]

(* the walk of save over a sorted container:
   for name in sorted(keys): for i, node in enumerate(getall(name)) *)
SortedWalk(m) ==
  LET ks == SortedKeys(m)
  IN Concat([k \in 1..Len(ks) |->
       LET g == getall(m, ks[k])
       IN [i \in 1..Len(g) |-> [i |-> i - 1, node |-> g[i]]]])

(* the nodes of a container in the order save writes their records *)
SaveVisit(c) ==
  IF c.sorted THEN LET w == SortedWalk(c.map) IN [k \in 1..Len(w) |-> w[k].node]
  ELSE c.map

RECURSIVE save(_, _)
RECURSIVE SaveNode(_, _)
SaveNode(h, node) ==
  IF node.kind = PARAM
    THEN add_byte(node.kind) \o add_widestr(node.name) \o add_widestr(node.content)
  ELSE IF node.kind = BLOCK
    THEN add_byte(node.kind) \o add_widestr(node.name) \o save(h, node.child)
  ELSE <<>>

save(h, id) ==
  LET m == h[id].map
      w == SortedWalk(m)
  IN add_bool(h[id].sorted) \o add_int(Len(m)) \o
     IF h[id].sorted
       THEN Concat([k \in 1..Len(w) |->
              add_int(w[k].i) \o add_int(w[k].node.count) \o SaveNode(h, w[k].node)])
       ELSE Concat([k \in 1..Len(m) |-> SaveNode(h, m[k])])

(* the state of a load: the heap being filled, the cursor of s, and whether a
   read found the stream exhausted (struct.error) *)
Fail(st) == [st EXCEPT !.err = TRUE]

RECURSIVE load(_, _, _)
RECURSIVE LoadEntries(_, _, _, _)
LoadEntries(st, s, id, n) ==
  IF st.err \/ n <= 0 THEN st
  ELSE
    LET p == IF st.h[id].sorted THEN st.pos + 8 ELSE st.pos
    IN IF p + 1 > Len(s) THEN Fail(st)
       ELSE
         LET kind == s[p + 1]
             name == get_widestr(s, p + 1)
             value == get_widestr(s, name.pos)
         IN IF kind = PARAM
              THEN LoadEntries([st EXCEPT !.h = add_par(st.h, id, name.str, value.str),
                                          !.pos = value.pos], s, id, n - 1)
            ELSE IF kind = BLOCK
              THEN LoadEntries(
                     load([st EXCEPT !.h = add_block(st.h, id, name.str, TRUE),
                                     !.pos = name.pos], s, Len(st.h) + 1),
                     s, id, n - 1)
            ELSE LoadEntries([st EXCEPT !.pos = p + 1], s, id, n - 1)

load(st, s, id) ==
  IF st.pos + 5 > Len(s) THEN Fail(st)
  ELSE LoadEntries([st EXCEPT !.h[id].sorted = (s[st.pos + 1] = 1), !.pos = st.pos + 5],
                   s, id, get_int(s, st.pos + 1))

(* the calls of save, or of load, on the stack at the deepest point of a save
   or a load of the BlockPar id: the call itself and, for a Block entry, the
   calls of node.content.save(s), or of bp.load(s), under it *)
RECURSIVE Frames(_, _)
Frames(h, id) ==
  LET m == h[id].map
      under == {Frames(h, m[k].child) : k \in {j \in 1..Len(m) : m[j].kind = BLOCK}}
  IN 1 + IF under = {} THEN 0 ELSE CHOOSE n \in under : \A o \in under : o <= n

(* a fresh BlockPar() loaded from the start of s *)
LoadFresh(s) == load([h |-> <<NewBlockPar(TRUE)>>, pos |-> 0, err |-> FALSE], s, 1)

NoLoad == [h |-> <<>>, pos |-> 0, err |-> FALSE]

-----------------------------------------------------------------------------
(* str operations of the text codec *)

LBRACE == 123
RBRACE == 125
EQUALS == 61
SLASH == 47
CARET == 94
TILDE == 126
LT == 60
GT == 62

CRLF == <<CR, LF>>
Blanks == {TAB, SP}
White == {TAB, LF, CR, SP}

(* the line boundaries of str.splitlines *)
LineBreaks == {10, 11, 12, 13, 28, 29, 30, 133, 8232, 8233}

Spaces(n) == [i \in 1..n |-> SP]

RECURSIVE lstrip(_, _)
lstrip(s, chars) ==
  IF s # <<>> /\ Head(s) \in chars THEN lstrip(Tail(s), chars) ELSE s

RECURSIVE rstrip(_, _)
rstrip(s, chars) ==
  IF s # <<>> /\ s[Len(s)] \in chars THEN rstrip(SubSeq(s, 1, Len(s) - 1), chars) ELSE s

strip(s, chars) == rstrip(lstrip(s, chars), chars)

startswith(s, p) == Len(s) >= Len(p) /\ SubSeq(s, 1, Len(p)) = p

endswith(s, p) == Len(s) >= Len(p) /\ SubSeq(s, Len(s) - Len(p) + 1, Len(s)) = p

(* 1-based index of the first occurrence of p in s, 0 when there is none *)
find(s, p) ==
  LET hits == {i \in 1..(Len(s) - Len(p) + 1) : SubSeq(s, i, i + Len(p) - 1) = p}
  IN IF hits = {} THEN 0 ELSE CHOOSE i \in hits : \A j \in hits : i <= j

In(p, s) == find(s, p) # 0

(* s.split(p, 1) of a str that holds p *)
split1(s, p) ==
  LET i == find(s, p)
  IN [left |-> SubSeq(s, 1, i - 1), right |-> SubSeq(s, i + Len(p), Len(s))]

(* content.splitlines(keepends=True) *)
RECURSIVE SplitLinesFrom(_, _)
SplitLinesFrom(s, cur) ==
  IF s = <<>> THEN (IF cur = <<>> THEN <<>> ELSE <<cur>>)
  ELSE IF Head(s) = CR /\ Len(s) >= 2 /\ s[2] = LF
    THEN <<cur \o CRLF>> \o SplitLinesFrom(Tail(Tail(s)), <<>>)
  ELSE IF Head(s) \in LineBreaks
    THEN <<Append(cur, Head(s))>> \o SplitLinesFrom(Tail(s), <<>>)
  ELSE SplitLinesFrom(Tail(s), Append(cur, Head(s)))

splitlines(s) == SplitLinesFrom(s, <<>>)

(* f.readline() of a text file opened with newline='': the line from the
   0-based offset pos with its line ending (CR LF, LF or CR), <<>> at the end *)
RECURSIVE LineEnd(_, _)
LineEnd(t, p) ==
  IF p >= Len(t) THEN Len(t)
  ELSE IF t[p + 1] = LF THEN p + 1
  ELSE IF t[p + 1] = CR THEN (IF p + 2 <= Len(t) /\ t[p + 2] = LF THEN p + 2 ELSE p + 1)
  ELSE LineEnd(t, p + 1)

readline(t, pos) ==
  LET e == LineEnd(t, pos) IN [line |-> SubSeq(t, pos + 1, e), pos |-> e]

-----------------------------------------------------------------------------
(* BlockPar.save_txt: the loop over a stack of (iterator, left) frames.  cur is
   what the iterator curblock has yet to yield, seen the nodes taken at level
   0, stop whether next() found the iterator exhausted (StopIteration) *)

Items(c) == IF c.sorted THEN SortByKey(c.map) ELSE c.map

HeredocText(content, level) ==
  LET ls == splitlines(content)
  IN <<LT, LT, LT>> \o CRLF
     \o Concat([i \in 1..Len(ls) |-> Spaces(4 * level) \o ls[i]])
     \o CRLF \o Spaces(4 * level) \o <<GT, GT, GT>>

ParamText(node, level) ==
  node.name \o <<EQUALS>>
  \o (IF In(<<CR>>, node.content) \/ In(<<LF>>, node.content)
        THEN HeredocText(node.content, level)
        ELSE node.content)
  \o CRLF

BlockOpenTextMutant(node, sort) ==
  node.name \o <<SP>> \o (IF sort THEN <<>> ELSE <<TILDE>>) \o <<LBRACE>> \o CRLF

BlockOpenText(node, sort) ==
  node.name \o <<SP>> \o <<IF sort THEN CARET ELSE TILDE>> \o <<LBRACE>> \o CRLF

RECURSIVE SaveTxtLoop(_, _)
SaveTxtLoop(h, st) ==
  IF st.level <= -1 THEN st
  ELSE IF st.left > 0 THEN
    IF st.cur = <<>> THEN [st EXCEPT !.stop = TRUE]
    ELSE
      LET node == Head(st.cur)
          took == [st EXCEPT !.cur = Tail(@),
                             !.out = @ \o Spaces(4 * st.level),
                             !.seen = IF st.level = 0 THEN Append(@, node) ELSE @]
      IN IF node.kind = PARAM
           THEN SaveTxtLoop(h, [took EXCEPT !.out = @ \o ParamText(node, st.level),
                                            !.left = @ - 1])
         ELSE IF node.kind = BLOCK
           THEN SaveTxtLoop(h, [took EXCEPT
                  !.stack = Append(@, [cur |-> took.cur, left |-> st.left]),
                  !.cur = Items(h[node.child]),
                  !.left = Len(h[node.child].map),
                  !.out = @ \o BlockOpenText(node, h[node.child].sorted),
                  !.level = @ + 1])
         ELSE SaveTxtLoop(h, [took EXCEPT !.out = @ \o CRLF])
  ELSE
    IF st.level - 1 > -1
      THEN LET top == st.stack[Len(st.stack)]
           IN SaveTxtLoop(h, [st EXCEPT
                !.level = @ - 1,
                !.out = @ \o Spaces(4 * (st.level - 1)) \o <<RBRACE>> \o CRLF,
                !.cur = top.cur,
                !.left = top.left - 1,
                !.stack = SubSeq(@, 1, Len(@) - 1)])
      ELSE [st EXCEPT !.level = @ - 1]

save_txt(h, id) ==
  SaveTxtLoop(h, [cur |-> Items(h[id]), left |-> Len(h[id].map), level |-> 0,
                  stack |-> <<>>, out |-> <<>>, seen |-> <<>>, stop |-> FALSE])

-----------------------------------------------------------------------------
(* BlockPar.load_txt *)

(* the text of the file an inclusion line names (the file system is outside
   the program): every path holds the one line a=x *)
FileText(path) == <<97, EQUALS, 120, CR, LF>>

(* the heredoc loop, from the line after <<<: the value, the offset after the
   >>> line, and whether the text ended first *)
(* line[spacenum:], a negative spacenum counting from the end of the line *)
SliceFrom(line, n) ==
  SubSeq(line, (IF n >= 0 THEN n ELSE IF Len(line) + n > 0 THEN Len(line) + n ELSE 0) + 1,
         Len(line))

RECURSIVE HeredocLoop(_, _, _, _, _)
RECURSIVE HeredocLoopMutant(_, _, _, _, _)
HeredocLoopMutant(t, pos, level, value, spacenum) ==
  LET r == readline(t, pos)
      lead == Len(r.line) - Len(lstrip(r.line, {SP}))
      n == IF value = <<>>
             THEN (IF lead > 4 * level THEN 4 * level ELSE lead)
             ELSE spacenum
  IN IF r.line = <<>> THEN [value |-> value, pos |-> r.pos, err |-> FALSE]
     ELSE IF strip(r.line, White) = <<>>
       THEN HeredocLoopMutant(t, r.pos, level, value, spacenum)
     ELSE IF startswith(lstrip(r.line, Blanks), <<GT, GT, GT>>)
       THEN [value |-> rstrip(value, {LF, CR}), pos |-> r.pos, err |-> FALSE]
     ELSE HeredocLoopMutant(t, r.pos, level, value \o SliceFrom(r.line, n), n)

HeredocLoop(t, pos, level, value, spacenum) ==
  LET r == readline(t, pos)
      lead == Len(r.line) - Len(lstrip(r.line, {SP}))
      n == IF value = <<>>
             THEN (IF lead > 4 * level THEN 4 * level ELSE lead)
             ELSE spacenum
  IN IF r.line = <<>> THEN [value |-> value, pos |-> r.pos, err |-> TRUE]
     ELSE IF strip(r.line, White) = <<>> THEN HeredocLoop(t, r.pos, level, value, spacenum)
     ELSE IF startswith(lstrip(r.line, Blanks), <<GT, GT, GT>>)
       THEN [value |-> rstrip(value, {LF, CR}), pos |-> r.pos, err |-> FALSE]
     ELSE HeredocLoop(t, r.pos, level, value \o SliceFrom(r.line, n), n)

RECURSIVE load_txt(_, _, _)
RECURSIVE LoadTxtLoop(_, _)
LoadTxtLoop(st, t) ==
  LET r == readline(t, st.pos)
      raw == strip(r.line, White)
      line == IF In(<<SLASH, SLASH>>, raw)
                THEN rstrip(split1(raw, <<SLASH, SLASH>>).left, Blanks)
                ELSE raw
      at == [st EXCEPT !.pos = r.pos]
  IN
  IF r.line = <<>> THEN st
  ELSE IF In(<<LBRACE>>, line) THEN
    LET head0 == rstrip(split1(line, <<LBRACE>>).left, Blanks)
        marked == endswith(head0, <<CARET>>) \/ endswith(head0, <<TILDE>>)
        is_sort == IF marked THEN endswith(head0, <<CARET>>) ELSE TRUE
        head == IF marked THEN rstrip(SubSeq(head0, 1, Len(head0) - 1), Blanks) ELSE head0
        inc == In(<<EQUALS>>, head)
        name == IF inc THEN rstrip(split1(line, <<EQUALS>>).left, Blanks) ELSE head
        path == IF inc THEN lstrip(split1(line, <<EQUALS>>).right, Blanks) ELSE <<>>
        new == Len(st.h) + 1
        pushed == [at EXCEPT !.stack = Append(@, st.cur)]
    IN IF path # <<>>
         THEN LET sub == load_txt(Append(st.h, NewBlockPar(TRUE)), new, FileText(path))
              IN IF sub.err THEN [pushed EXCEPT !.h = sub.h, !.err = TRUE]
                 ELSE LoadTxtLoop([pushed EXCEPT
                        !.h = set(sub.h, st.cur, BlockNode(name, new))], t)
         ELSE LoadTxtLoop([pushed EXCEPT
                !.h = add(Append(st.h, NewBlockPar(is_sort)), st.cur, BlockNode(name, new)),
                !.cur = new,
                !.level = @ + 1], t)
  ELSE IF In(<<RBRACE>>, line) THEN
    LoadTxtLoop([at EXCEPT
      !.cur = IF st.level > 0 THEN st.stack[Len(st.stack)] ELSE @,
      !.stack = IF st.level > 0 THEN SubSeq(@, 1, Len(@) - 1) ELSE @,
      !.level = @ - 1], t)
  ELSE IF In(<<EQUALS>>, line) THEN
    LET name == rstrip(split1(line, <<EQUALS>>).left, Blanks)
        value == lstrip(split1(line, <<EQUALS>>).right, Blanks)
        doc == HeredocLoop(t, r.pos, st.level, <<>>, 0)
    IN IF startswith(value, <<LT, LT, LT>>)
         THEN IF doc.err THEN [at EXCEPT !.pos = doc.pos, !.err = TRUE]
              ELSE LoadTxtLoop([at EXCEPT !.h = add(st.h, st.cur, ParNode(name, doc.value)),
                                          !.pos = doc.pos], t)
         ELSE LoadTxtLoop([at EXCEPT !.h = add(st.h, st.cur, ParNode(name, value))], t)
  ELSE LoadTxtLoop(at, t)

(* the loop's locals when load_txt leaves it: the heap, curblock, level, stack,
   the offset reached, and whether an exception ended it *)
LoadTxtRun(h, id, t) ==
  LoadTxtLoop([h |-> clear(h, id), cur |-> id, level |-> 0, stack |-> <<>>,
               pos |-> 0, err |-> FALSE], t)

load_txt(h, id, t) ==
  LET done == LoadTxtRun(h, id, t)
  IN [h |-> done.h, pos |-> done.pos, err |-> done.err]

(* BlockPar().load_txt(f) *)
LoadTxtFresh(t) == load_txt(<<NewBlockPar(TRUE)>>, 1, t)

-----------------------------------------------------------------------------
(* BlockPar.get_par_path, BlockPar.get_block_path *)

DOT == 46
COLON == 58
ZERO == 48

(* what str.strip() removes *)
PyWhite == {9, 10, 11, 12, 13, 28, 29, 30, 31, 32, 133, 160}

(* s.split(ch) *)
RECURSIVE SplitFrom(_, _, _)
SplitFrom(s, ch, cur) ==
  IF s = <<>> THEN <<cur>>
  ELSE IF Head(s) = ch THEN <<cur>> \o SplitFrom(Tail(s), ch, <<>>)
  ELSE SplitFrom(Tail(s), ch, Append(cur, Head(s)))

split(s, ch) == SplitFrom(s, ch, <<>>)

(* s.rsplit(":", 1): the parts around the last colon, one part without one *)
rsplit1(s) ==
  LET at == {i \in 1..Len(s) : s[i] = COLON}
      i == CHOOSE x \in at : \A y \in at : y <= x
  IN IF at = {} THEN <<s>> ELSE <<SubSeq(s, 1, i - 1), SubSeq(s, i + 1, Len(s))>>

IsDigits(s) == s # <<>> /\ \A i \in 1..Len(s) : s[i] \in ZERO..(ZERO + 9)

(* int(s) of a str of decimal digits *)
RECURSIVE int(_)
int(s) == IF s = <<>> THEN 0 ELSE 10 * int(SubSeq(s, 1, Len(s) - 1)) + (s[Len(s)] - ZERO)

Raise(e) == [out |-> e, val |-> <<>>, obj |-> 0]
Return(node) == [out |-> "ok", val |-> node.content, obj |-> node.child]

(* the loop `for part in path` of both lookups, at part k; want is the kind
   the final entry must have *)
RECURSIVE PathLoop(_, _, _, _, _, _)
PathLoop(h, curblock, path, k, index, want) ==
  IF k > Len(path) THEN [out |-> "None", val |-> <<>>, obj |-> 0]
  ELSE
    LET part == path[k]
        m == h[curblock].map
        first == m[FirstIdx(m, part)]
        all == getall(m, part)
    IN IF ~Contains(m, part) THEN Raise("KeyError")
       ELSE IF part # path[Len(path)]
         THEN IF first.kind # BLOCK THEN Raise("TypeError")
              ELSE PathLoop(h, first.child, path, k + 1, index, want)
       ELSE IF index > 0 /\ (first.count = 1 \/ index >= first.count)
         THEN Raise("IndexError")
       ELSE IF index > 0 /\ index >= Len(all) THEN Raise("IndexError")
       ELSE LET node == IF index > 0 THEN all[index + 1] ELSE first
            IN IF node.kind # want THEN Raise("TypeError") ELSE Return(node)

PathLookup(h, id, path, want) ==
  LET path_index == rsplit1(strip(path, PyWhite))
  IN IF Len(path_index) > 1 /\ ~IsDigits(path_index[2]) THEN Raise("ValueError")
     ELSE PathLoop(h, id, split(path_index[1], DOT), 1,
                   IF Len(path_index) > 1 THEN int(path_index[2]) ELSE 0, want)

get_par_path(h, id, path) == PathLookup(h, id, path, PARAM)

get_block_path(h, id, path) == PathLookup(h, id, path, BLOCK)

(* the paths the callers ask for: a, a:1, a:2, b:1, a.b, a.b:1, a.b:2, a.a,
   a.b.a *)
Paths ==
  { <<97>>, <<97, 58, 49>>, <<97, 58, 50>>, <<98, 58, 49>>,
    <<97, 46, 98>>, <<97, 46, 98, 58, 49>>, <<97, 46, 98, 58, 50>>,
    <<97, 46, 97>>, <<97, 46, 98, 46, 97>> }

NoRet == [op |-> "", path |-> <<>>, out |-> "", val |-> <<>>, obj |-> 0]

-----------------------------------------------------------------------------
(* Buffer: the keystream generator and the cipher *)

RECURSIVE Xor(_, _)
Xor(a, b) ==
  IF a = 0 /\ b = 0 THEN 0
  ELSE (((a % 2) + (b % 2)) % 2) + 2 * Xor(a \div 2, b \div 2)

RandDivisor == 127773
RandMul == 16807
RandSub == 2836
RandMax == 2147483647

rand31pmMutant(seed) ==
  ((seed % RandDivisor) * RandMul) - ((seed \div RandDivisor) * RandSub)

(* one turn of the loop of _rand31pm: the next seed *)
rand31pm(seed) ==
  LET hi == seed \div RandDivisor
      lo == seed % RandDivisor
      s == (lo * RandMul) - (hi * RandSub)
  IN IF s < 1 THEN s + RandMax ELSE s

(* the first n values of next(gen) & 255 of gen = _rand31pm(key) *)
RECURSIVE Keystream(_, _)
Keystream(seed, n) ==
  IF n = 0 THEN <<>>
  ELSE LET s == rand31pm(seed) IN <<(s - 1) % 256>> \o Keystream(s, n - 1)

Rest(b, pos, size) == IF size = -1 THEN Len(b) - pos ELSE size

XorRangeMutant(b, begin, size, k) ==
  LET ks == Keystream(k, size)
  IN [i \in 1..Len(b) |->
       IF i > begin /\ i <= begin + size THEN (b[i] + ks[i - begin]) % 256 ELSE b[i]]

(* the loop of cipher and decipher over view[begin:end] *)
XorRange(b, begin, size, k) ==
  LET ks == Keystream(k, size)
  IN [i \in 1..Len(b) |->
       IF i > begin /\ i <= begin + size THEN Xor(b[i], ks[i - begin]) ELSE b[i]]

cipher(b, pos, k, size) ==
  [buf |-> XorRange(b, pos, Rest(b, pos, size), k), pos |-> pos + Rest(b, pos, size)]

decipherMutant(b, pos, k, size) ==
  [buf |-> XorRange(b, pos, Rest(b, pos, size), k), pos |-> pos + Rest(b, pos, size)]

decipher(b, pos, k, size) ==
  [buf |-> XorRange(b, pos, Rest(b, pos, size), k), pos |-> pos]

-----------------------------------------------------------------------------
(* zlib, as Buffer and from_dat use it.  An unsigned 32-bit value is the pair
   of its high and low 16 bits *)

(* one bit of the CRC register, polynomial 0xEDB88320 *)
CrcShift(c) ==
  LET hi == c[1] \div 2
      lo == (c[2] \div 2) + ((c[1] % 2) * 32768)
  IN IF c[2] % 2 = 1 THEN <<Xor(hi, 60856), Xor(lo, 33568)>> ELSE <<hi, lo>>

RECURSIVE CrcBits(_, _)
CrcBits(c, n) ==
  IF n = 0 THEN c
  ELSE LET d == CrcShift(c) IN IF d[1] >= 0 THEN CrcBits(d, n - 1) ELSE d

RECURSIVE CrcBytes(_, _, _)
CrcBytes(c, s, i) ==
  IF i > Len(s) THEN c
  ELSE LET d == CrcBits(<<c[1], Xor(c[2], s[i])>>, 8)
       IN IF d[1] >= 0 THEN CrcBytes(d, s, i + 1) ELSE d

(* zlib.crc32(s) *)
crc32(s) ==
  LET c == CrcBytes(<<65535, 65535>>, s, 1) IN <<65535 - c[1], 65535 - c[2]>>

RECURSIVE AdlerSums(_, _, _, _)
AdlerSums(s, i, a, b) ==
  IF i > Len(s) THEN <<b, a>>
  ELSE AdlerSums(s, i + 1, (a + s[i]) % 65521, (b + ((a + s[i]) % 65521)) % 65521)

(* the Adler-32 of s as the four bytes that end a zlib stream *)
Adler32(s) ==
  LET c == AdlerSums(s, 1, 1, 0)
  IN <<c[1] \div 256, c[1] % 256, c[2] \div 256, c[2] % 256>>

(* zlib.decompress(d) for a stream of one final stored block, the only kind
   of stream the files of the model hold; bytes after the stream are ignored *)
Inflate(d) ==
  LET n == IF Len(d) >= 5 THEN d[4] + (256 * d[5]) ELSE 0
      good == /\ Len(d) >= 11 + n
              /\ d[1] % 16 = 8 /\ d[1] \div 16 <= 7
              /\ ((256 * d[1]) + d[2]) % 31 = 0 /\ (d[2] \div 32) % 2 = 0
              /\ d[3] % 8 = 1
              /\ d[6] + (256 * d[7]) = 65535 - n
              /\ Adler32(SubSeq(d, 8, 7 + n)) = SubSeq(d, 8 + n, 11 + n)
  IN IF good THEN [ok |-> TRUE, data |-> SubSeq(d, 8, 7 + n)]
     ELSE [ok |-> FALSE, data |-> <<>>]

(* AbstractIO.get, get_uint and the value of a get_uint below 2^31 *)
get(s, pos, n) == SubSeq(s, pos + 1, IF pos + n > Len(s) THEN Len(s) ELSE pos + n)

get_uint(s, pos) == <<s[pos + 3] + (256 * s[pos + 4]), s[pos + 1] + (256 * s[pos + 2])>>

Value(u) == (65536 * u[1]) + u[2]

ZL01 == <<90, 76, 48, 49>>
ZL02 == <<90, 76, 48, 50>>
ZL03 == <<90, 76, 48, 51>>

Unpacked(e, data) == [out |-> e, data |-> data]

(* ValueError("AbstractIO.decompress: unknown format") *)
UnknownFormat == "ValueError: unknown format"

(* Buffer._decompress(start, size, bufsize) *)
Decompress(s, start, size) == Inflate(get(s, start, size))

(* the loop of the ZL03 branch: n chunks left, the cursor at pos *)
RECURSIVE Chunks(_, _, _, _)
RECURSIVE ChunksMutant(_, _, _, _)
ChunksMutant(s, pos, n, result) ==
  IF n <= 0 THEN Unpacked("ok", result)
  ELSE IF pos + 4 > Len(s) THEN Unpacked("struct.error", <<>>)
  ELSE
    LET chunksize == Value(get_uint(s, pos))
        r == Decompress(s, pos + 4, chunksize)
    IN IF r.ok THEN ChunksMutant(s, pos + 4 + chunksize, n - 1, r.data \o result)
       ELSE Unpacked("zlib.error", <<>>)

Chunks(s, pos, n, result) ==
  IF n <= 0 THEN Unpacked("ok", result)
  ELSE IF pos + 4 > Len(s) THEN Unpacked("struct.error", <<>>)
  ELSE
    LET chunksize == Value(get_uint(s, pos))
        r == Decompress(s, pos + 4, chunksize)
    IN IF r.ok THEN Chunks(s, pos + 4 + chunksize, n - 1, result \o r.data)
       ELSE Unpacked("zlib.error", <<>>)

(* AbstractIO.decompress(size) of a Buffer with the bytes s, its cursor at pos *)
decompress(s, pos, size) ==
  LET magic == get(s, pos, 4)
  IN IF magic = ZL01 THEN
       IF pos + 8 > Len(s) THEN Unpacked("struct.error", <<>>)
       ELSE LET r == Decompress(s, pos + 8, size - 8)
            IN IF r.ok THEN Unpacked("ok", r.data) ELSE Unpacked("zlib.error", <<>>)
     ELSE IF magic = ZL02 THEN Unpacked(UnknownFormat, <<>>)
     ELSE IF magic = ZL03 THEN
       IF pos + 8 > Len(s) THEN Unpacked("struct.error", <<>>)
       ELSE Chunks(s, pos + 8, get_int(s, pos + 4), <<>>)
     ELSE Unpacked(UnknownFormat, <<>>)

-----------------------------------------------------------------------------
(* The typed reads of AbstractIO: what the call returns or raises, and the
   cursor after it.  A float is left as the bytes it is unpacked from *)

Got(val, pos) == [out |-> "ok", val |-> val, pos |-> pos]

(* the bytes struct.unpack wants for the read *)
Width(op) ==
  CASE op \in {"get_bool", "get_byte"} -> 1
    [] op = "get_word" -> 2
    [] op \in {"get_int", "get_uint", "get_single"} -> 4
    [] op = "get_double" -> 8

Unpacked1(op, b) ==
  CASE op = "get_bool" -> <<b[1] = 1>>
    [] op = "get_byte" -> <<b[1]>>
    [] op = "get_word" -> <<b[1] + (256 * b[2])>>
    [] op = "get_int" -> <<get_int(b, 0)>>
    [] op = "get_uint" -> get_uint(b, 0)
    [] op \in {"get_single", "get_double"} -> b

(* self.<op>() of a stream with the bytes s and its cursor at pos; n is the
   size given to get *)
Read(op, s, pos, n) ==
  IF op = "get" THEN Got(get(s, pos, n), pos + Len(get(s, pos, n)))
  ELSE IF op = "get_widestr"
    THEN LET w == get_widestr(s, pos) IN Got(w.str, w.pos)
  ELSE LET b == get(s, pos, Width(op))
       IN IF Len(b) < Width(op)
            THEN [out |-> "struct.error", val |-> <<>>, pos |-> pos + Len(b)]
          ELSE Got(Unpacked1(op, b), pos + Width(op))

(* the cursor decompress leaves behind: _decompress moves it past the
   bytes it was given unless zlib raised *)
RECURSIVE ChunksEnd(_, _, _)
ChunksEnd(s, pos, n) ==
  IF n <= 0 THEN pos
  ELSE IF pos + 4 > Len(s) THEN (IF pos > Len(s) THEN pos ELSE Len(s))
  ELSE LET chunksize == Value(get_uint(s, pos))
       IN IF Decompress(s, pos + 4, chunksize).ok
            THEN ChunksEnd(s, pos + 4 + chunksize, n - 1)
          ELSE pos + 4

decompress_end(s, pos, size) ==
  LET magic == get(s, pos, 4)
  IN IF magic = ZL01 THEN
       IF pos + 8 > Len(s) THEN Len(s)
       ELSE IF Decompress(s, pos + 8, size - 8).ok THEN pos + size ELSE pos + 8
     ELSE IF magic = ZL03 THEN
       IF pos + 8 > Len(s) THEN Len(s)
       ELSE ChunksEnd(s, pos + 8, get_int(s, pos + 4))
     ELSE pos + Len(magic)

(* src/io.py, the earlier Stream.decompress and Buffer.decompress: as above
   but for a ZL02 magic, where it returns None, and for an unknown magic,
   where it raises Exception("Buffer.unpack: wrong format") *)
WrongFormat == "Exception: wrong format"

io_decompress(s, pos, size) ==
  LET magic == get(s, pos, 4)
  IN IF magic = ZL02 THEN Unpacked("None", <<>>)
     ELSE IF magic \notin {ZL01, ZL03} THEN Unpacked(WrongFormat, <<>>)
     ELSE decompress(s, pos, size)

(* AbstractIO.compress(fmt, size): the body is `pass`, it returns None *)
compress(s, pos, fmt, size) == Unpacked("None", <<>>)

(* src/io.py, Stream.compress(fmt, sz): its first statement reads the local
   size, which is assigned only later *)
io_compress(s, pos, fmt, sz) == Unpacked("UnboundLocalError", <<>>)

-----------------------------------------------------------------------------
(* BlockPar.from_dat *)

bytes_xor(a, b) ==
  [i \in 1..(IF Len(a) < Len(b) THEN Len(a) ELSE Len(b)) |-> Xor(a[i], b[i])]

(* int.from_bytes(a, 'little', signed=True), a of four bytes at most *)
RECURSIVE bytes_to_int(_)
bytes_to_int(a) ==
  IF a = <<>> THEN 0
  ELSE IF Len(a) = 1 THEN (IF a[1] >= 128 THEN a[1] - 256 ELSE a[1])
  ELSE a[1] + (256 * bytes_to_int(Tail(a)))

seed_key == <<137, 198, 232, 177>>

WrongHash == "Exception: wrong content hash"

Loaded(e, tree) == [out |-> e, tree |-> tree]

(* the branch of an equal hash: decompress, then load into a fresh BlockPar *)
Unpack(d, size) ==
  LET u == decompress(d, 8, size)
      tree == LoadFresh(u.data)
  IN IF u.out # "ok" THEN Loaded(u.out, NoLoad)
     ELSE IF tree.err THEN Loaded("struct.error", NoLoad)
     ELSE Loaded("ok", tree)

(* the bytes of the Buffer once the payload is deciphered *)
Deciphered(f) ==
  LET seed == bytes_to_int(bytes_xor(get(f, 4, 4), seed_key))
      pos == IF Len(f) < 8 THEN Len(f) ELSE 8
  IN decipher(f, pos, seed, Len(f) - pos).buf

from_datMutant(f) ==
  IF Len(f) < 4 THEN Loaded("struct.error", NoLoad)
  ELSE Unpack(Deciphered(f), Len(f) - 8)

(* from_dat(path), f the bytes of the file at path *)
from_dat(f) ==
  IF Len(f) < 4 THEN Loaded("struct.error", NoLoad)
  ELSE
    LET content_hash == get_uint(f, 0)
        pos == IF Len(f) < 8 THEN Len(f) ELSE 8
        size == Len(f) - pos
        d == Deciphered(f)
        calc_hash == crc32(get(d, pos, size))
    IN IF calc_hash = content_hash THEN Unpack(d, size)
       ELSE Loaded(WrongHash, NoLoad)

(* the sinks from_dat has opened and not closed when it returns or raises
   with the outcome out: b, the Buffer over the bytes of the file, is closed by the ValueError
   branches of decompress, by the branch of an unequal hash and after a
   decompress that returned; unpacked is closed after a load that returned *)
Unclosed(f, out) ==
  IF out \in {"ok", WrongHash, UnknownFormat} THEN {}
  ELSE IF Len(f) < 4 \/ out = "zlib.error" THEN {"b"}
  ELSE
    LET pos == IF Len(f) < 8 THEN Len(f) ELSE 8
        u == decompress(Deciphered(f), 8, Len(f) - pos)
    IN IF u.out # "ok" THEN {"b"} ELSE {"unpacked"}

(* the calls from_dat makes once the header is read, in order, each with the
   cursor of b it starts at and the size it is given: b.decipher(seed, size),
   b.calc_hash(size), b.decompress(size) in the branch of an equal hash, and
   blockpar.load(unpacked), from the start of unpacked, once decompress has
   returned *)
Step(op, begin, size) == [op |-> op, begin |-> begin, size |-> size]

StepsMutant(f, out) ==
  LET pos == IF Len(f) < 8 THEN Len(f) ELSE 8
  IN <<Step("decipher", pos, Len(f) - pos), Step("calc_hash", pos, Len(f) - pos),
       Step("decompress", pos, Len(f) - pos)>>

Steps(f, out) ==
  LET pos == IF Len(f) < 8 THEN Len(f) ELSE 8
      size == Len(f) - pos
      hashed == <<Step("decipher", pos, size), Step("calc_hash", pos, size)>>
  IN IF Len(f) < 4 THEN <<>>
     ELSE IF out = WrongHash THEN hashed
     ELSE hashed \o <<Step("decompress", pos, size)>>
          \o (IF out = "ok" \/ "unpacked" \in Unclosed(f, out)
                THEN <<Step("load", 0, -1)>> ELSE <<>>)

(* Buffer.from_file: f = open(file, mode) is read and dropped, never closed;
   the handle is released when the file object is collected, at once or
   later *)
from_file == {{}, {"f"}}

-----------------------------------------------------------------------------
(* The callers: a tree is built by at most MaxCalls mutation calls on any
   BlockPar of the heap (object 1 is the root), then iterated, or written and
   read back.  last is the most recent call: its name (add stands for add,
   add_par and add_block), the BlockPar and the key it was made on, and the
   number of entries the key had before it *)

Ids == 1..Len(objs)

CanCall == pc = "build" /\ calls < MaxCalls

IdleIO == stream = <<>> /\ loaded = NoLoad /\ visit = <<>>
IdleTxt == txt = <<>> /\ ret = NoRet
IdleBuf == buf = <<>> /\ bpos = 0 /\ key = 0 /\ orig = <<>> /\ log = <<>>
IdleOther == sinks = {} /\ depth = 0 /\ resaved = <<>>

TreeInit ==
  /\ objs \in {<<NewBlockPar(TRUE)>>, <<NewBlockPar(FALSE)>>}
  /\ calls = 0
  /\ last = [op |-> "", id |-> 0, name |-> <<>>, had |-> 0]
  /\ pc = "build"
  /\ IdleIO /\ IdleTxt /\ IdleBuf /\ IdleOther

Build(op, id, name, h) ==
  /\ objs' = h
  /\ last' = [op |-> op, id |-> id, name |-> name, had |-> Len(getall(objs[id].map, name))]
  /\ calls' = calls + 1
  /\ UNCHANGED <<pc, stream, loaded, visit, txt, ret, buf, bpos, key, orig, log,
               other>>

(* add(name, content) with a str *)
Call_add ==
  \E id \in Ids, name \in Names, v \in Vals :
    CanCall /\ Build("add", id, name, add(objs, id, ParNode(name, v)))

(* add(name, BlockPar(sort)) with a BlockPar made for the call *)
Call_add_new ==
  \E id \in Ids, name \in Names, sort \in BOOLEAN :
    CanCall /\ Build("add", id, name, add(Append(objs, NewBlockPar(sort)), id,
                          BlockNode(name, Len(objs) + 1)))

Call_add_par ==
  \E id \in Ids, name \in Names, v \in Vals :
    CanCall /\ Build("add", id, name, add_par(objs, id, name, v))

Call_add_block ==
  \E id \in Ids, name \in Names, sort \in BOOLEAN :
    CanCall /\ Build("add", id, name, add_block(objs, id, name, sort))

(* set(name, content) with a str *)
SetStr(id, name, v) ==
  CanCall /\ Build("set", id, name, set(objs, id, ParNode(name, v)))

Call_set == \E id \in Ids, name \in Names, v \in Vals : SetStr(id, name, v)

(* set(name, BlockPar(sort)) with a BlockPar made for the call *)
SetNew(id, name, sort) ==
  CanCall /\ Build("set", id, name, set(Append(objs, NewBlockPar(sort)), id,
                                        BlockNode(name, Len(objs) + 1)))

Call_set_new == \E id \in Ids, name \in Names, sort \in BOOLEAN : SetNew(id, name, sort)

Mutate ==
  \/ Call_add \/ Call_add_new \/ Call_add_par \/ Call_add_block
  \/ Call_set \/ Call_set_new

Called(op) == last' = [op |-> op, id |-> 1, name |-> <<>>, had |-> 0]

(* for name, content in root: ... *)
Call_iter ==
  /\ pc = "build"
  /\ visit' = iter(objs[1])
  /\ pc' = "iterated"
  /\ Called("iter")
  /\ UNCHANGED <<objs, calls, stream, loaded, txt, ret, buf, bpos, key, orig, log,
               other>>

(* root.save(s) on an empty stream s; visit is the nodes in the order save
   writes their records *)
Call_save ==
  /\ pc = "build"
  /\ stream' = save(objs, 1)
  /\ visit' = SaveVisit(objs[1])
  /\ depth' = Frames(objs, 1)
  /\ pc' = "saved"
  /\ Called("save")
  /\ UNCHANGED <<objs, calls, loaded, txt, ret, buf, bpos, key, orig, log,
               sinks, resaved>>

(* s.seek(0); BlockPar().load(s) *)
Call_load ==
  /\ pc = "saved"
  /\ loaded' = LoadFresh(stream)
  /\ depth' = Frames(loaded'.h, 1)
  /\ pc' = "loaded"
  /\ Called("load")
  /\ UNCHANGED <<objs, calls, stream, visit, txt, ret, buf, bpos, key, orig, log,
               sinks, resaved>>

(* root.save_txt(f) on an empty text file f; visit is the nodes of the root
   taken from its iterator *)
Call_save_txt ==
  /\ pc = "build"
  /\ LET done == save_txt(objs, 1)
     IN txt' = done.out /\ visit' = done.seen
  /\ pc' = "saved_txt"
  /\ Called("save_txt")
  /\ UNCHANGED <<objs, calls, stream, loaded, ret, buf, bpos, key, orig, log,
               other>>

(* f.seek(0); BlockPar().load_txt(f) *)
Call_load_txt ==
  /\ pc = "saved_txt"
  /\ loaded' = LoadTxtFresh(txt)
  /\ pc' = "loaded_txt"
  /\ Called("load_txt")
  /\ UNCHANGED <<objs, calls, stream, visit, txt, ret, buf, bpos, key, orig, log,
               other>>

Init == TreeInit

Next ==
  \/ Mutate
  \/ Call_iter
  \/ Call_save \/ Call_load
  \/ Call_save_txt

Spec == Init /\ [][Next]_vars

(* the mutation calls alone *)
SpecMut == Init /\ [][Mutate]_vars

(* del bp[name]; KeyError, with nothing changed, when the name is not there *)
Call_del ==
  \E id \in Ids, name \in Names :
    CanCall /\ Build("del", id, name,
                     IF Contains(objs[id].map, name) THEN delitem(objs, id, name) ELSE objs)

NextDel == Mutate \/ Call_del

SpecDel == Init /\ [][NextDel]_vars

(* add(name, bp) and set(name, bp) with a BlockPar bp the caller holds
   already: the root or a BlockPar made by an earlier call *)
Call_add_held ==
  \E id \in Ids, name \in Names, bp \in Ids :
    CanCall /\ Build("add", id, name, add(objs, id, BlockNode(name, bp)))

Call_set_held ==
  \E id \in Ids, name \in Names, bp \in Ids :
    CanCall /\ Build("set", id, name, set(objs, id, BlockNode(name, bp)))

NextHeld == Mutate \/ Call_add_held \/ Call_set_held

SpecHeld == Init /\ [][NextHeld]_vars

(* the path lookups: a tree is built and a path is looked up from the root *)
Answer(op, path, r) ==
  /\ pc = "build"
  /\ ret' = [op |-> op, path |-> path, out |-> r.out, val |-> r.val, obj |-> r.obj]
  /\ pc' = "queried"
  /\ Called(op)
  /\ UNCHANGED <<objs, calls, stream, loaded, visit, txt, buf, bpos, key, orig, log,
               other>>

Call_get_par_path ==
  \E path \in Paths : Answer("get_par_path", path, get_par_path(objs, 1, path))

Call_get_block_path ==
  \E path \in Paths : Answer("get_block_path", path, get_block_path(objs, 1, path))

NextPath == Mutate \/ Call_get_par_path \/ Call_get_block_path

SpecPath == Init /\ [][NextPath]_vars

(* the cipher: a Buffer of MaxBuf bytes with its cursor anywhere, and a key;
   cipher and decipher are applied, at most twice in all, the cursor moved by
   seek in between; log is the (begin, size) of each application *)
MaxBuf == 3
Bytes == {0, 65, 255}
Keys == {-1, 0, 1, 42, 2147483647}
Sizes == {-1} \cup 0..(Len(buf) - bpos)

(* a buffer with 8 header bytes in front of two more *)
WithHeader == <<1, 2, 3, 4, 5, 6, 7, 8, 65, 255>>

BufInit ==
  /\ buf \in [1..MaxBuf -> Bytes] \cup {WithHeader}
  /\ bpos \in (0..MaxBuf) \cup {8} /\ bpos <= Len(buf)
  /\ key \in Keys
  /\ orig = buf
  /\ log = <<>>
  /\ objs = <<>> /\ calls = 0 /\ pc = "buffer"
  /\ last = [op |-> "", id |-> 0, name |-> <<>>, had |-> 0]
  /\ IdleIO /\ IdleTxt /\ IdleOther

Applied(op, size, r) ==
  /\ Len(log) < 2
  /\ buf' = r.buf
  /\ bpos' = r.pos
  /\ log' = Append(log, [op |-> op, begin |-> bpos, size |-> Rest(buf, bpos, size)])
  /\ UNCHANGED <<objs, last, calls, pc, stream, loaded, visit, txt, ret, key, orig,
               other>>

Call_cipher == \E size \in Sizes : Applied("cipher", size, cipher(buf, bpos, key, size))

Call_decipher == \E size \in Sizes : Applied("decipher", size, decipher(buf, bpos, key, size))

Call_seek ==
  /\ Len(log) = 1
  /\ \E n \in 0..Len(buf) : bpos' = n
  /\ UNCHANGED <<objs, last, calls, pc, stream, loaded, visit, txt, ret, buf, key, orig, log,
               other>>

NextCipher == Call_cipher \/ Call_decipher \/ Call_seek

SpecCipher == BufInit /\ [][NextCipher]_vars

(* the generator alone: gen = _rand31pm(seed), then up to MaxSteps times
   next(gen) & 255.  key is the seed the generator holds, buf the bytes taken *)
MaxSteps == 12

GenSeeds == {1, 2, 42, 16807, 127772, 127773, 127774, 255546, 1000000007,
             2147483646, 2147483647}

GenInit ==
  /\ key \in GenSeeds
  /\ buf = <<>> /\ orig = <<>> /\ bpos = 0 /\ log = <<>>
  /\ objs = <<>> /\ calls = 0 /\ pc = "gen"
  /\ last = [op |-> "", id |-> 0, name |-> <<>>, had |-> 0]
  /\ IdleIO /\ IdleTxt /\ IdleOther

Call_next ==
  /\ pc = "gen" /\ calls < MaxSteps
  /\ key' = rand31pm(key)
  /\ buf' = Append(buf, (key' - 1) % 256)
  /\ calls' = calls + 1
  /\ UNCHANGED <<objs, last, pc, stream, loaded, visit, txt, ret, bpos, orig, log, other>>

NextGen == Call_next

SpecGen == GenInit /\ [][NextGen]_vars

(* the container: a file that holds a payload under its CRC-32 and its
   seed; one byte of its hash or of its ciphertext may be altered before
   from_dat reads it.  orig is the file as it was written, buf the file as
   from_dat finds it *)
UintBytes(u) == <<u[2] % 256, u[2] \div 256, u[1] % 256, u[1] \div 256>>

(* zlib.compress(s, 0) *)
Stored(s) ==
  <<120, 1, 1, Len(s) % 256, Len(s) \div 256, 255 - (Len(s) % 256), 255 - (Len(s) \div 256)>>
    \o s \o Adler32(s)

Trees ==
  {save(<<NewBlockPar(TRUE)>>, 1),
   save(add_par(<<NewBlockPar(FALSE)>>, 1, <<97>>, <<120>>), 1)}

Payloads ==
  {ZL01 \o add_int(Len(s)) \o Stored(s) : s \in Trees}
    \cup {ZL03 \o add_int(1) \o add_int(Len(Stored(s))) \o Stored(s) : s \in Trees}
    \cup {ZL01 \o add_int(1) \o <<0, 0, 0>>, ZL01 \o add_int(1) \o Stored(<<1>>),
          ZL01 \o <<1>>, ZL02 \o add_int(0), <<1, 2>>, <<>>}

Seeds == {-1, 1, 42}

Container(payload, seed) ==
  UintBytes(crc32(payload)) \o bytes_xor(add_int(seed), seed_key)
    \o cipher(payload, 0, seed, -1).buf

Masks == {1, 128}

DatInit ==
  /\ \E payload \in Payloads, seed \in Seeds : buf = Container(payload, seed)
  /\ orig = buf
  /\ bpos = 0 /\ key = 0 /\ log = <<>>
  /\ objs = <<>> /\ calls = 0 /\ pc = "file"
  /\ last = [op |-> "", id |-> 0, name |-> <<>>, had |-> 0]
  /\ IdleIO /\ IdleTxt /\ IdleOther

Alter ==
  /\ pc = "file"
  /\ buf = orig
  /\ \E i \in (1..4) \cup (9..Len(buf)), mask \in Masks :
       buf' = [buf EXCEPT ![i] = Xor(@, mask)]
  /\ UNCHANGED <<objs, last, calls, pc, stream, loaded, visit, txt, ret, bpos, key, orig, log,
               other>>

Call_from_dat ==
  /\ pc = "file"
  /\ LET r == from_dat(buf)
     IN /\ ret' = [op |-> "from_dat", path |-> <<>>, out |-> r.out, val |-> <<>>, obj |-> 0]
        /\ loaded' = r.tree
        /\ sinks' \in {f \cup Unclosed(buf, r.out) : f \in from_file}
        /\ log' = Steps(buf, r.out)
  /\ pc' = "done"
  /\ UNCHANGED <<objs, last, calls, stream, visit, txt, buf, bpos, key, orig,
               depth, resaved>>

NextDat == Alter \/ Call_from_dat

SpecDat == DatInit /\ [][NextDat]_vars

(* the stream layer: a Buffer with some bytes and its cursor, and one call on
   it: a typed read, decompress or compress.  log is that call, with the
   cursor it found and the size it was given *)
Hello == <<72, 69, 76, 76, 79, 32, 87, 79, 82, 76, 68>>

(* frames with bytes in front of them and behind them: two chunks, no chunk,
   a chunk declared one byte longer than its deflate stream, and a ZL01 frame *)
Chunk(c) == add_int(Len(c)) \o c

Framed ==
  LET two == ZL03 \o add_int(2) \o Chunk(Stored(<<1>>)) \o Chunk(Stored(<<2, 3>>))
  IN {two \o <<7>>, <<9>> \o two \o <<7>>, ZL03 \o add_int(0) \o <<7>>,
      ZL03 \o add_int(1) \o Chunk(Stored(<<1>>) \o <<7>>) \o <<8>>,
      ZL01 \o add_int(1) \o Stored(<<1>>) \o <<7>>}

IOBufs == UNION {[1..n -> Bytes] : n \in 0..MaxBuf} \cup Payloads \cup {Hello} \cup Framed

IOInit ==
  /\ buf \in IOBufs
  /\ bpos \in 0..MaxBuf /\ bpos <= Len(buf)
  /\ orig = buf
  /\ key = 0 /\ log = <<>>
  /\ objs = <<>> /\ calls = 0 /\ pc = "stream"
  /\ last = [op |-> "", id |-> 0, name |-> <<>>, had |-> 0]
  /\ IdleIO /\ IdleTxt /\ IdleOther

IOCall(op, size, out, val, pos) ==
  /\ pc = "stream"
  /\ ret' = [op |-> op, path |-> <<>>, out |-> out, val |-> val, obj |-> 0]
  /\ bpos' = pos
  /\ log' = <<[op |-> op, begin |-> bpos, size |-> size]>>
  /\ pc' = "called"
  /\ UNCHANGED <<objs, last, calls, stream, loaded, visit, txt, buf, key, orig, other>>

ReadCall(op, n) ==
  LET r == Read(op, buf, bpos, n) IN IOCall(op, n, r.out, r.val, r.pos)

(* get(size) *)
Call_get == \E n \in 0..(MaxBuf + 1) : ReadCall("get", n)

(* get_bool(), get_byte(), get_word(), get_int(), get_uint(), get_single(),
   get_double(): struct.unpack of self.get(width) *)
Call_get_struct ==
  \E op \in {"get_bool", "get_byte", "get_word", "get_int", "get_uint", "get_single",
              "get_double"} : ReadCall(op, Width(op))

Call_get_widestr == ReadCall("get_widestr", 0)

(* decompress(size), size = -1 standing for the bytes up to the end *)
Call_decompress ==
  \E size \in {-1, Len(buf) - bpos - 1} :
    LET r == decompress(buf, bpos, Rest(buf, bpos, size))
    IN IOCall("decompress", size, r.out, r.data,
              decompress_end(buf, bpos, Rest(buf, bpos, size)))

Call_io_decompress ==
  LET r == io_decompress(buf, bpos, Len(buf) - bpos)
  IN IOCall("io.decompress", -1, r.out, r.data, decompress_end(buf, bpos, Len(buf) - bpos))

Call_compress ==
  LET r == compress(buf, bpos, ZL01, -1) IN IOCall("compress", -1, r.out, r.data, bpos)

Call_io_compress ==
  LET r == io_compress(buf, bpos, 1, -1) IN IOCall("io.compress", -1, r.out, r.data, bpos)

(* add_widestr(v) with the cursor at bpos, then seek(start) and get_widestr():
   txt is the str written, a sequence of UTF-16 code units; io.write puts the
   bytes over those at the cursor and past the end *)
Units == {65, 255, 256}
Strs == UNION {[1..n -> Units] : n \in 0..MaxBuf}

write(b, pos, v) == SubSeq(b, 1, pos) \o v \o SubSeq(b, pos + Len(v) + 1, Len(b))

Call_add_widestr ==
  /\ pc = "stream"
  /\ \E v \in Strs :
       /\ txt' = v
       /\ buf' = write(buf, bpos, add_widestr(v))
       /\ bpos' = bpos + Len(add_widestr(v))
  /\ log' = <<Step("add_widestr", bpos, -1)>>
  /\ pc' = "written"
  /\ UNCHANGED <<objs, last, calls, stream, loaded, visit, ret, key, orig, other>>

Call_get_back ==
  /\ pc = "written"
  /\ LET r == Read("get_widestr", buf, log[1].begin, 0)
     IN /\ ret' = [op |-> "get_widestr", path |-> <<>>, out |-> r.out, val |-> r.val, obj |-> 0]
        /\ bpos' = r.pos
  /\ pc' = "read"
  /\ UNCHANGED <<objs, last, calls, stream, loaded, visit, txt, buf, key, orig, log, other>>

NextIO ==
  \/ Call_get \/ Call_get_struct \/ Call_get_widestr
  \/ Call_decompress \/ Call_io_decompress
  \/ Call_compress \/ Call_io_compress
  \/ Call_add_widestr \/ Call_get_back

SpecIO == IOInit /\ [][NextIO]_vars

-----------------------------------------------------------------------------
(* rangers/storage: DataTable *)

(* DataTable.save on the stream s with its cursor at initpos: the header, the
   entries, the allocation table, the header's first field written again once
   tablepos is known; the bytes of s and the cursor it is left at *)
DataTable_save(s, initpos, el_size, entries) ==
  LET datapos == initpos + 12
      data == Concat(entries)
      tablepos == datapos + Len(data)
      table == Concat([i \in 1..Len(entries) |->
                 add_int(datapos + (IF i = 1 THEN 0 ELSE Len(entries[i - 1])))
                   \o add_int(Len(entries[i]) \div el_size)
                   \o add_int(Len(entries[i]) \div el_size)])
      out == add_int(tablepos) \o add_int(Len(entries)) \o add_int(el_size) \o data \o table
  IN [buf |-> write(s, initpos, out), pos |-> initpos + Len(out)]

(* the three fields read at the offset p: s.get_uint(), s.get_int(),
   s.get_int(); struct.error when the stream ends before the twelfth byte *)
Fields(s, p) ==
  IF p + 12 > Len(s)
    THEN [out |-> "struct.error", val |-> <<>>, pos |-> IF p > Len(s) THEN p ELSE Len(s)]
    ELSE Got(<<Value(get_uint(s, p)), get_int(s, p + 4), get_int(s, p + 8)>>, p + 12)

(* the loop of DataTable.load from entry i on *)
RECURSIVE LoadTable(_, _, _, _, _)
LoadTable(s, initpos, header, i, entries) ==
  IF i >= header[2] THEN Got(entries, initpos)
  ELSE LET e == Fields(s, initpos + header[1] + (i * 12))
           start == initpos + e.val[1]
           length == header[3] * e.val[2]
       IN IF e.out # "ok" THEN [e EXCEPT !.val = entries]
          ELSE LoadTable(s, initpos, header, i + 1,
                 Append(entries, get(s, start, IF length < 0 THEN Len(s) ELSE length)))

(* DataTable(el_size).load(s, size) with the cursor of s at initpos *)
DataTable_load(s, initpos, size) ==
  LET header == Fields(s, initpos)
      done == LoadTable(s, initpos, header.val, 0, <<>>)
  IN IF header.out # "ok" THEN header
     ELSE IF done.out # "ok" THEN done
     ELSE Got(done.val, initpos + size)

(* a DataTable of up to MaxBuf entries, each a whole number of elements, and
   a stream with its cursor at any offset *)
ElemBytes == {<<>>, <<65>>, <<66, 67>>}

TableInit ==
  /\ key \in {1, 2}
  /\ \E n \in 0..MaxBuf : orig \in [1..n -> {e \in ElemBytes : Len(e) % key = 0}]
  /\ buf \in {<<>>, <<7>>, <<7, 7>>}
  /\ bpos \in 0..Len(buf)
  /\ log = <<>>
  /\ objs = <<>> /\ calls = 0 /\ pc = "table"
  /\ last = [op |-> "", id |-> 0, name |-> <<>>, had |-> 0]
  /\ IdleIO /\ IdleTxt /\ IdleOther

(* table.save(s), table a DataTable(key) holding the entries orig *)
Call_table_save ==
  /\ pc = "table"
  /\ LET done == DataTable_save(buf, bpos, key, orig)
     IN /\ buf' = done.buf
        /\ bpos' = done.pos
        /\ log' = <<Step("save", bpos, done.pos - bpos)>>
  /\ pc' = "table_saved"
  /\ Called("save")
  /\ UNCHANGED <<objs, calls, stream, loaded, visit, txt, ret, key, orig, other>>

(* s.seek(initpos); DataTable(key).load(s, size), initpos and size those of the
   save *)
Call_table_load ==
  /\ pc = "table_saved"
  /\ LET r == DataTable_load(buf, log[1].begin, log[1].size)
     IN /\ ret' = [op |-> "load", path |-> <<>>, out |-> r.out, val |-> r.val, obj |-> 0]
        /\ bpos' = r.pos
  /\ pc' = "table_loaded"
  /\ Called("load")
  /\ UNCHANGED <<objs, calls, stream, loaded, visit, txt, buf, key, orig, log, other>>

NextTable == Call_table_save \/ Call_table_load

SpecTable == TableInit /\ [][NextTable]_vars

(* the text codec: a tree is built, written by save_txt and read by load_txt *)
NextTxt == Mutate \/ Call_save_txt \/ Call_load_txt

SpecTxt == Init /\ [][NextTxt]_vars

(* the writer alone: a tree is built and written by save_txt *)
NextSaveTxt == Mutate \/ Call_save_txt

SpecSaveTxt == Init /\ [][NextSaveTxt]_vars

(* a text written by hand is read by load_txt into a fresh BlockPar, and the
   tree is written by save_txt: the text is up to MaxLines lines, each ended
   by CR LF *)
MaxLines == 4

Root == <<114, 111, 111, 116>>
Lines ==
  { Root \o <<CARET, LBRACE>>, Root \o <<SP, CARET, LBRACE>>,
    Spaces(2) \o <<97, EQUALS, 49>>, Spaces(4) \o <<97, EQUALS, 49>>,
    Spaces(2) \o <<97, EQUALS, 50>>, Spaces(4) \o <<97, EQUALS, 50>>,
    <<RBRACE>> }

TextsOf(lines, max) ==
  UNION {{Concat([i \in 1..n |-> ls[i] \o CRLF]) : ls \in [1..n -> lines]} : n \in 0..max}

Texts(max) == TextsOf(Lines, max)

TextStart(texts) ==
  /\ txt \in texts
  /\ objs = <<>> /\ calls = 0 /\ pc = "text"
  /\ last = [op |-> "", id |-> 0, name |-> <<>>, had |-> 0]
  /\ ret = NoRet
  /\ IdleIO /\ IdleBuf /\ IdleOther

TextInit == TextStart(Texts(MaxLines))

(* BlockPar().load_txt(f), f holding txt; depth and visit are the level and
   the stack that the call's loop ended with *)
Call_load_text ==
  /\ pc = "text"
  /\ LET done == LoadTxtRun(<<NewBlockPar(TRUE)>>, 1, txt)
     IN /\ loaded' = [h |-> done.h, pos |-> done.pos, err |-> done.err]
        /\ depth' = done.level
        /\ visit' = done.stack
        /\ ret' = [NoRet EXCEPT !.op = "load_txt", !.obj = done.cur]
  /\ pc' = "parsed"
  /\ Called("load_txt")
  /\ UNCHANGED <<objs, calls, stream, txt, buf, bpos, key, orig, log, sinks, resaved>>

(* save_txt(g) of the BlockPar that load_txt has filled, g empty *)
Call_resave ==
  /\ pc = "parsed" /\ ~loaded.err
  /\ resaved' = save_txt(loaded.h, 1).out
  /\ pc' = "resaved"
  /\ Called("save_txt")
  /\ UNCHANGED <<objs, calls, stream, loaded, visit, txt, ret, buf, bpos, key, orig, log,
               sinks, depth>>

NextText == Call_load_text \/ Call_resave

SpecText == TextInit /\ [][NextText]_vars

(* texts whose lines open a block, set a parameter, close a block, open a
   heredoc or start with >>> *)
HeredocLines ==
  { Root \o <<CARET, LBRACE>>, Spaces(2) \o <<97, EQUALS, 49>>, <<RBRACE>>,
    <<97, EQUALS, LT, LT, LT>>, <<GT, GT, GT>> }

HeredocInit == TextStart(TextsOf(HeredocLines, MaxLines))

SpecHeredoc == HeredocInit /\ [][NextText]_vars

(* texts whose lines open a block, include a file, close a block or set a
   parameter *)
ParseLines ==
  { <<98, SP, LBRACE>>, <<97, EQUALS, LBRACE, 112>>, <<RBRACE>>, <<99, EQUALS, 49>> }

ParseInit == TextStart(TextsOf(ParseLines, MaxLines))

SpecParse == ParseInit /\ [][NextText]_vars

(* a tree of one parameter a, in the root or in a block b of the root, whose
   value is up to MaxBuf characters of x, CR and LF; it is written by save_txt
   and read back by load_txt *)
DocVals == UNION {[1..n -> {120, CR, LF}] : n \in 0..MaxBuf}

DocInit ==
  /\ \E v \in DocVals :
       objs \in { add(<<NewBlockPar(TRUE)>>, 1, ParNode(<<97>>, v)),
                  add(add(<<NewBlockPar(TRUE), NewBlockPar(TRUE)>>, 1, BlockNode(<<98>>, 2)),
                      2, ParNode(<<97>>, v)) }
  /\ calls = Len(objs)
  /\ last = [op |-> "add", id |-> Len(objs), name |-> <<97>>, had |-> 0]
  /\ pc = "build"
  /\ IdleIO /\ IdleTxt /\ IdleBuf /\ IdleOther

NextDoc == Call_save_txt \/ Call_load_txt

SpecDoc == DocInit /\ [][NextDoc]_vars

-----------------------------------------------------------------------------
(* Claims *)

(* C1: a tree written by save and read back by load into a fresh BlockPar is
   structurally equal to the tree written: same keys, kinds, values, sorted
   flags and per-key order at every level *)
C1_BinaryRoundTrip ==
  pc = "loaded" => (~loaded.err /\ Canon(loaded.h, 1) = Canon(objs, 1))

(* C2: a tree written by save_txt and read back by load_txt into a fresh
   BlockPar is structurally equal to the tree written, the sorted flag of the
   root included *)
C2_TextRoundTrip ==
  pc = "loaded_txt" => (~loaded.err /\ Canon(loaded.h, 1) = Canon(objs, 1))

(* C3: in the records save writes for a sorted container, every record of a
   key with n entries carries count n, and the indexes of the key's records
   are 0, 1, ..., n-1 in the order written, each once *)
C3_IndexAndCount ==
  pc = "saved" =>
    \A id \in Ids : objs[id].sorted =>
      LET m == objs[id].map
          w == SortedWalk(m)
      IN \A x \in 1..Len(m) :
           LET n == Len(getall(m, m[x].name))
               r == SelectSeq(w, LAMBDA e : e.node.name = m[x].name)
           IN /\ Len(r) = n
              /\ \A k \in 1..Len(r) : r[k].i = k - 1 /\ r[k].node.count = n

(* the lookup the path contract describes: every segment before the last, by
   position, is descended into through the first entry of its key, which must
   be a Block; 0 when a segment is missing or is no Block *)
RECURSIVE Descend(_, _, _, _)
Descend(h, cur, parts, k) ==
  IF k >= Len(parts) THEN cur
  ELSE LET m == h[cur].map
       IN IF ~Contains(m, parts[k]) THEN 0
          ELSE IF m[FirstIdx(m, parts[k])].kind # BLOCK THEN 0
          ELSE Descend(h, m[FirstIdx(m, parts[k])].child, parts, k + 1)

RECURSIVE Expected(_, _, _, _, _)
Expected(h, cur, parts, k, want) ==
  LET m == h[cur].map
      first == m[FirstIdx(m, parts[k])]
  IN IF ~Contains(m, parts[k]) THEN Raise("KeyError")
     ELSE IF k < Len(parts)
       THEN IF first.kind # BLOCK THEN Raise("TypeError")
            ELSE Expected(h, first.child, parts, k + 1, want)
     ELSE IF first.kind # want THEN Raise("TypeError") ELSE Return(first)

Asked == rsplit1(ret.path)
AskedParts == split(Asked[1], DOT)
AskedKind == IF ret.op = "get_par_path" THEN PARAM ELSE BLOCK

(* C4: for a path ending in :N whose final key has n entries in its
   container, the lookup returns the content of the N-th entry of the key (in
   insertion order) when N < n and fails with the index error when N >= n *)
C4_IndexedLookup ==
  (pc = "queried" /\ Len(Asked) > 1) =>
    LET N == int(Asked[2])
        c == Descend(objs, 1, AskedParts, 1)
        all == IF c = 0 THEN <<>> ELSE getall(objs[c].map, AskedParts[Len(AskedParts)])
    IN all # <<>> =>
         IF N >= Len(all) THEN ret.out = "IndexError"
         ELSE all[N + 1].kind = AskedKind =>
                /\ ret.out = "ok"
                /\ ret.val = all[N + 1].content
                /\ ret.obj = all[N + 1].child

(* C5: for a path without an index, every segment before the last (by
   position) is descended into as a Block and only the last is looked up as
   the final entry: a missing segment gives the path-not-found error, a Param
   on the way or a final entry of the other kind the kind-mismatch error *)
C5_SegmentsByPosition ==
  (pc = "queried" /\ Len(Asked) = 1) =>
    LET e == Expected(objs, 1, AskedParts, 1, AskedKind)
    IN ret.out = e.out /\ ret.val = e.val /\ ret.obj = e.obj

(* the CRC-32 of the deciphered payload of the file, all bytes after its
   header of eight, differs from the stored content_hash *)
HashDiffers == crc32(get(Deciphered(buf), 8, Len(buf) - 8)) # get_uint(buf, 0)

(* C6: from_dat fails with the integrity error, and returns no tree, whenever
   the CRC-32 of the deciphered payload differs from the stored content_hash *)
C6_WrongHashFails ==
  (pc = "done" /\ Len(buf) >= 8 /\ HashDiffers)
    => (ret.out = WrongHash /\ loaded = NoLoad)

(* a ciphertext byte of a container that loads was altered, and the load of
   the altered file failed with the integrity error *)
C6_Witness ==
  /\ pc = "done"
  /\ buf # orig /\ SubSeq(buf, 1, 8) = SubSeq(orig, 1, 8)
  /\ from_dat(orig).out = "ok"
  /\ HashDiffers
  /\ ret.out = WrongHash /\ loaded = NoLoad

(* C7: cipher applied twice, or cipher then decipher, with the same key over
   the same byte range gives every byte of the buffer its original value *)
C7_CipherInvolution ==
  (/\ Len(log) = 2
   /\ log[1].op = "cipher"
   /\ log[2].begin = log[1].begin
   /\ log[2].size = log[1].size) => buf = orig

(* a range of two bytes or more, not at the start of the buffer, was ciphered
   twice and the buffer holds its original bytes *)
C7_Witness ==
  /\ Len(log) = 2
  /\ log[1].op = "cipher" /\ log[2].op = "cipher"
  /\ log[2].begin = log[1].begin /\ log[2].size = log[1].size
  /\ log[1].size >= 2 /\ log[1].begin >= 1
  /\ buf = orig

(* the values of the parameters of the tree under a container, by key and, in
   a key, in insertion order, the blocks descended into *)
RECURSIVE AllParams(_, _)
AllParams(h, id) ==
  LET m == SortByKey(h[id].map)
  IN Concat([i \in 1..Len(m) |->
       IF m[i].kind = BLOCK THEN AllParams(h, m[i].child) ELSE <<m[i].content>>])

HasLineBreak(s) == In(<<CR>>, s) \/ In(<<LF>>, s)

(* C8: a parameter value that holds a line break, written by save_txt (as a
   heredoc) and read by load_txt, comes back as exactly the original string,
   blank lines included *)
C8_HeredocRoundTrip ==
  pc = "loaded_txt" =>
    LET was == AllParams(objs, 1)
        got == AllParams(loaded.h, 1)
    IN \A k \in 1..Len(was) :
         HasLineBreak(was[k]) => (~loaded.err /\ Len(got) >= k /\ got[k] = was[k])

(* the canonical order of a container: by key with the insertion order kept
   inside a key when sorted, the insertion order otherwise *)
CanonicalOrder(c) == IF c.sorted THEN SortByKey(c.map) ELSE c.map

(* C9: iteration, save and save_txt visit the entries of the root in the
   canonical order, each entry once *)
C9_SameCanonicalOrder ==
  pc \in {"iterated", "saved", "saved_txt"} => visit = CanonicalOrder(objs[1])

(* what set(name, content) must leave behind in container id *)
SetPost(id, name, node) ==
  /\ Len(getall(objs'[id].map, name)) = 1
  /\ LET e == getall(objs'[id].map, name)[1]
     IN e.kind = node.kind /\ e.content = node.content /\ e.child = node.child
  /\ SelectSeq(objs'[id].map, LAMBDA n : n.name # name)
       = SelectSeq(objs[id].map, LAMBDA n : n.name # name)
  /\ \A o \in Ids \ {id} : objs'[o] = objs[o]

(* C10: set(k, v) leaves exactly one entry under k, with content v, whatever k
   had before, and leaves the entries of every other key as they were *)
C10_SetReplacesAll ==
  [][(calls' = calls + 1 /\ last'.op = "set") =>
       LET id == last'.id
           name == last'.name
       IN /\ \A v \in Vals : SetStr(id, name, v) => SetPost(id, name, ParNode(name, v))
          /\ \A sort \in BOOLEAN :
               SetNew(id, name, sort) => SetPost(id, name, BlockNode(name, Len(objs) + 1))
          /\ \/ \E v \in Vals : SetStr(id, name, v)
             \/ \E sort \in BOOLEAN : SetNew(id, name, sort)
    ]_vars

(* set was called on a key that had two entries or more *)
C10_Witness == last.op = "set" /\ last.had >= 2

(* an entry without its count, and the entries of a map *)
Entry(n) == [name |-> n.name, kind |-> n.kind, content |-> n.content, child |-> n.child]
Entries(m) == [i \in 1..Len(m) |-> Entry(m[i])]

(* what add(name, content) must leave behind in container id *)
AddPost(id, name, node) ==
  LET old == objs[id].map
      new == objs'[id].map
      was == getall(old, name)
      now == getall(new, name)
  IN /\ Len(new) = Len(old) + 1
     /\ Len(now) = Len(was) + 1
     /\ Entries(SubSeq(now, 1, Len(was))) = Entries(was)
     /\ Entry(now[Len(now)]) = Entry(node)
     /\ SelectSeq(new, LAMBDA n : n.name # name) = SelectSeq(old, LAMBDA n : n.name # name)
     /\ \A o \in Ids \ {id} : objs'[o] = objs[o]

(* C11: add(k, v) never rejects or merges a duplicate: the entries of k are
   the ones it had, in their order, followed by v; the container has one
   entry more and the entries of every other key are as they were *)
C11_AddAppends ==
  [][(calls' = calls + 1 /\ last'.op = "add") =>
       LET id == last'.id
           name == last'.name
       IN \/ \E v \in Vals :
               /\ objs' = add(objs, id, ParNode(name, v))
               /\ AddPost(id, name, ParNode(name, v))
          \/ \E sort \in BOOLEAN :
               /\ objs' = add(Append(objs, NewBlockPar(sort)), id,
                              BlockNode(name, Len(objs) + 1))
               /\ AddPost(id, name, BlockNode(name, Len(objs) + 1))
    ]_vars

(* add was called on a key that had an entry already, in a container that
   holds another key as well *)
C11_Witness ==
  /\ last.op = "add" /\ last.had >= 1
  /\ Len(objs[last.id].map) > last.had + 1

(* the BlockPar objects that are the content of a Block entry of id *)
Kids(id) ==
  {objs[id].map[i].child : i \in {j \in 1..Len(objs[id].map) : objs[id].map[j].kind = BLOCK}}

RECURSIVE Closure(_, _)
Closure(S, n) ==
  IF n = 0 THEN S ELSE Closure(S \cup UNION {Kids(x) : x \in S}, n - 1)

(* what is reachable from id through one Block entry or more *)
Below(id) == Closure(Kids(id), Len(objs))

InTree == {1} \cup Below(1)

BlockEntries ==
  UNION {{<<id, i>> : i \in {j \in 1..Len(objs[id].map) : objs[id].map[j].kind = BLOCK}} :
         id \in InTree}

(* C12: what is reachable from the root is a tree: no BlockPar is the content
   of two entries, and none is reachable from itself through Block entries *)
C12_TreeShaped ==
  /\ \A e1, e2 \in BlockEntries :
       e1 # e2 => objs[e1[1]].map[e1[2]].child # objs[e2[1]].map[e2[2]].child
  /\ \A id \in InTree : id \notin Below(id)

-----------------------------------------------------------------------------
(* the bytes the call recorded in log found in front of the cursor *)
Remaining == Len(buf) - log[1].begin
IsError(out) == out \notin {"ok", "None"}
OnBadMagic(op) ==
  IF op = "decompress" THEN decompress(<<1, 2>>, 0, 2).out
  ELSE io_decompress(<<1, 2>>, 0, 2).out

(* C13: decompress raises an error when the magic is ZL02 and an error when
   the magic is none of ZL01, ZL02, ZL03, never returning silently, and the
   error for ZL02 is another one than the error for a bad magic. *)
C13_DistinctFormatErrors ==
  (pc = "called" /\ ret.op \in {"decompress", "io.decompress"}) =>
    LET magic == get(buf, log[1].begin, 4)
    IN /\ magic \notin {ZL01, ZL03} => IsError(ret.out)
       /\ magic = ZL02 => ret.out # OnBadMagic(ret.op)

Reads ==
  {"get", "get_bool", "get_byte", "get_word", "get_int", "get_uint", "get_single",
   "get_double", "get_widestr"}

RECURSIVE HasTerminator(_, _)
HasTerminator(s, pos) ==
  /\ pos + 2 <= Len(s)
  /\ \/ get(s, pos, 2) = <<0, 0>>
     \/ HasTerminator(s, pos + 2)

Truncated ==
  IF ret.op = "get_widestr" THEN ~HasTerminator(buf, log[1].begin)
  ELSE log[1].size > Remaining

(* C14: a typed read that needs more bytes than remain before the end of the
   stream, a widestr without its zero terminator included, fails with an
   error and returns no short or empty value. *)
C14_TruncatedReadFails ==
  (pc = "called" /\ ret.op \in Reads /\ Truncated) => IsError(ret.out)

(* C17: compress in the ZL01 format returns the magic ZL01, the length of the
   bytes B it was given and a deflate stream, and decompress of that frame
   returns B; so it does for the 11 bytes HELLO WORLD. *)
C17_ZL01RoundTrip ==
  (pc = "called" /\ ret.op \in {"compress", "io.compress"}) =>
    LET B == get(buf, log[1].begin, Remaining)
    IN /\ ret.out = "ok"
       /\ get(ret.val, 0, 4) = ZL01
       /\ get_int(ret.val, 4) = Len(B)
       /\ decompress(ret.val, 0, Len(ret.val)) = Unpacked("ok", B)

(* C15: when from_dat has returned or raised, whatever the exit path, the
   file handle, the container buffer and the decompressed buffer it opened
   are all closed. *)
C15_SinksClosed == pc = "done" => sinks = {}

(* C16: save and load walk the nested blocks inside one call, with a stack of
   their own: whatever the nesting depth of the tree, no call of save or of
   load runs under another one. *)
C16_ConstantCallDepth == pc \in {"saved", "loaded"} => depth = 1

(* the text of the entries of the BlockPar id at nesting level L: a Param is
   its line (or heredoc), a Block its opening line, the entries of its child
   one level deeper, and its closing line *)
RECURSIVE Nested(_, _, _)
Nested(h, id, L) ==
  LET es == Items(h[id])
  IN Concat([k \in 1..Len(es) |->
       IF es[k].kind = PARAM THEN Spaces(4 * L) \o ParamText(es[k], L)
       ELSE Spaces(4 * L) \o es[k].name
            \o <<SP, IF h[es[k].child].sorted THEN CARET ELSE TILDE, LBRACE, CR, LF>>
            \o Nested(h, es[k].child, L + 1)
            \o Spaces(4 * L) \o <<RBRACE, CR, LF>>])

(* C20: save_txt ends without running its iterator dry, and its output is well
   nested: a Block entry at level L gives one line name ^{ or name ~{ behind
   4*L spaces, then the entries of its child at level L+1, then one line }
   behind 4*L spaces. *)
C20_WellNested ==
  pc = "saved_txt" => (~save_txt(objs, 1).stop /\ txt = Nested(objs, 1, 0))

(* an unsorted block of the root that holds a block with a parameter *)
C20_Witness ==
  /\ pc = "saved_txt"
  /\ \E a \in 1..Len(objs[1].map) :
       /\ objs[1].map[a].kind = BLOCK
       /\ LET A == objs[objs[1].map[a].child]
          IN /\ ~A.sorted
             /\ \E b \in 1..Len(A.map) :
                  /\ A.map[b].kind = BLOCK
                  /\ objs[A.map[b].child].map # <<>>

(* the text root^{ CRLF, a=1 and a=2 behind two spaces, } CRLF, and the text
   save_txt writes for its tree *)
Example ==
  Root \o <<CARET, LBRACE>> \o CRLF \o Spaces(2) \o <<97, EQUALS, 49>> \o CRLF
    \o Spaces(2) \o <<97, EQUALS, 50>> \o CRLF \o <<RBRACE>> \o CRLF

ExampleSaved ==
  Root \o <<SP, CARET, LBRACE>> \o CRLF \o Spaces(4) \o <<97, EQUALS, 49>> \o CRLF
    \o Spaces(4) \o <<97, EQUALS, 50>> \o CRLF \o <<RBRACE>> \o CRLF

(* C18 as stated: the example text loaded by load_txt and written by save_txt
   comes out byte for byte as it went in. *)
C18_ExampleIdentical == (pc = "resaved" /\ txt = Example) => resaved = txt

(* C18 amended: the example text comes out with a space before the marker and
   four spaces of indentation, and that text, loaded and written again, comes
   out byte for byte as it went in. *)
C18_ExampleCanonical ==
  (pc = "resaved" /\ txt \in {Example, ExampleSaved}) => resaved = ExampleSaved

C18_Witness == pc = "resaved" /\ txt = Example /\ resaved # <<>>

(* the lines of a text from line i on hold a parameter line, outside any
   heredoc, whose value starts with <<< and which no later line starting
   with >>> closes *)
OpensHeredoc(line) ==
  LET l == strip(line, White)
  IN /\ ~In(<<LBRACE>>, l) /\ ~In(<<RBRACE>>, l) /\ In(<<EQUALS>>, l)
     /\ startswith(lstrip(split1(l, <<EQUALS>>).right, Blanks), <<LT, LT, LT>>)

RECURSIVE Unterminated(_, _)
Unterminated(ls, i) ==
  LET ends == {j \in (i + 1)..Len(ls) : startswith(strip(ls[j], White), <<GT, GT, GT>>)}
  IN /\ i <= Len(ls)
     /\ IF OpensHeredoc(ls[i])
          THEN ends = {} \/ Unterminated(ls, 1 + CHOOSE j \in ends : \A k \in ends : j <= k)
        ELSE Unterminated(ls, i + 1)

(* C19: load_txt fails, and does not return, when a parameter value starts
   with <<< and the text ends before a line whose trimmed content starts
   with >>>. *)
C19_UnterminatedHeredocFails ==
  (pc = "parsed" /\ Unterminated(splitlines(txt), 1)) => loaded.err

(* a heredoc was closed and a later one was not *)
C19_Witness ==
  /\ pc = "parsed" /\ loaded.err
  /\ Unterminated(splitlines(txt), 1)
  /\ \E j \in 1..Len(splitlines(txt)) : startswith(splitlines(txt)[j], <<GT, GT, GT>>)

(* C21: from_dat deciphers the bytes from offset 8 to the end of the file,
   then computes the CRC-32 of that range, then decompresses from the same
   offset with the same size, then loads the tree; decompress and load are
   not started unless the CRC-32 equalled content_hash. *)
C21_StepsInOrder ==
  pc = "done" =>
    LET range(op) == Step(op, 8, Len(buf) - 8)
    IN /\ Len(log) \in 2..4
       /\ log[1] = range("decipher") /\ log[2] = range("calc_hash")
       /\ Len(log) >= 3 => (log[3] = range("decompress") /\ ~HashDiffers)
       /\ Len(log) = 4 => log[4].op = "load"

(* a file whose hash was right was deciphered, hashed, decompressed and loaded *)
C21_Witness == pc = "done" /\ Len(log) = 4 /\ ret.out = "ok" /\ loaded # NoLoad

(* the chunks of a ZL03 frame read one after the other from offset p: each is
   its declared length, then that many bytes holding its deflate stream *)
RECURSIVE InOrder(_, _, _)
InOrder(s, p, c) ==
  IF c = 0 THEN [data |-> <<>>, pos |-> p]
  ELSE LET len == get_int(s, p)
           rest == InOrder(s, p + 4 + len, c - 1)
       IN [data |-> Inflate(SubSeq(s, p + 5, p + 4 + len)).data \o rest.data,
           pos |-> rest.pos]

(* C22: decompress of a ZL03 frame with c chunks returns the outputs of the
   chunks joined in stream order and leaves the cursor behind the declared
   length of the last chunk; decompress(size) of a ZL01 frame leaves it behind
   the size - 8 compressed bytes. *)
C22_ChunksInOrder ==
  (pc = "called" /\ ret.op = "decompress" /\ ret.out = "ok") =>
    LET begin == log[1].begin
        magic == get(buf, begin, 4)
        all == InOrder(buf, begin + 8, get_int(buf, begin + 4))
    IN /\ magic = ZL03 => (ret.val = all.data /\ bpos = all.pos)
       /\ magic = ZL01 => bpos = begin + Rest(buf, begin, log[1].size)

(* a frame of two chunks, with bytes behind it, was decoded *)
C22_Witness ==
  /\ pc = "called" /\ ret.op = "decompress" /\ ret.out = "ok"
  /\ get(buf, log[1].begin, 4) = ZL03 /\ get_int(buf, log[1].begin + 4) = 2
  /\ Len(ret.val) = 3 /\ bpos < Len(buf)

(* C23: get_widestr from the offset where add_widestr(s) wrote s returns s
   and leaves the cursor 2 * Len(s) + 2 bytes on; the scan is in units of two
   bytes from that offset, so the zero bytes of two neighbouring units (65
   then 256: the bytes 65, 0, 0, 1) do not end the str. *)
C23_WidestrRoundTrip ==
  pc = "read" =>
    /\ ret.out = "ok" /\ ret.val = txt
    /\ bpos = log[1].begin + (2 * Len(txt)) + 2

(* the str 65, 256 was written at an odd offset and read back *)
C23_Witness ==
  /\ pc = "read" /\ txt = <<65, 256>>
  /\ log[1].begin % 2 = 1
  /\ get(buf, log[1].begin, 4) = <<65, 0, 0, 1>>

(* C24: from a seed s in 1 .. 0x7fffffff every next state of the generator is
   ((s mod 0x1f31d) * 0x41a7) - ((s div 0x1f31d) * 0xb14), plus 0x7fffffff
   when that is below 1; it lies in 1 .. 0x7fffffff again, and the byte taken
   is (state - 1) & 0xFF. *)
C24_NextState ==
  [][(pc = "gen" /\ calls' = calls + 1) =>
       LET raw == ((key % 127773) * 16807) - ((key \div 127773) * 2836)
       IN /\ key \in 1..2147483647
          /\ key' = IF raw < 1 THEN raw + 2147483647 ELSE raw
          /\ key' \in 1..2147483647
          /\ buf' = Append(buf, (key' - 1) % 256)]_vars

(* a state below 1 was brought back into the range: 0x1f31d gives -0xb14 *)
C24_Witness ==
  pc = "gen" /\ calls >= 1 /\ key = 2147483647 - 2836 /\ buf[Len(buf)] = 234

(* C25: cipher(key, size) and decipher(key, size) with the cursor at p XOR
   the byte at p + i with the i-th keystream byte of key for i below size and
   leave every other byte, in front of p or behind the range, as it was;
   cipher leaves the cursor at p + size, decipher at p. *)
C25_FrameEffect ==
  [][(pc = "buffer" /\ Len(log') = Len(log) + 1) =>
       LET call == log'[Len(log')]
           ks == Keystream(key, call.size)
       IN /\ call.begin = bpos /\ Len(buf') = Len(buf)
          /\ \A i \in 1..Len(buf) :
               buf'[i] = IF i - 1 \in bpos..(bpos + call.size - 1)
                           THEN Xor(buf[i], ks[i - bpos]) ELSE buf[i]
          /\ bpos' = IF call.op = "cipher" THEN bpos + call.size ELSE bpos]_vars

(* the two bytes behind the 8 header bytes were deciphered *)
C25_Witness ==
  /\ pc = "buffer" /\ Len(log) = 1
  /\ log[1] = Step("decipher", 8, 2) /\ bpos = 8
  /\ SubSeq(buf, 1, 8) = SubSeq(orig, 1, 8) /\ SubSeq(buf, 9, 10) # SubSeq(orig, 9, 10)

-----------------------------------------------------------------------------
(* C26: in load_txt, after every sequence of input lines (inclusion lines
   key={path and surplus } lines among them), the number of containers on the
   stack equals the level and the level is not negative.  The texts of
   SpecParse hold every prefix of every text, so the locals after the last
   line are the locals at every point of a longer text. *)
C26_StackMatchesLevel ==
  pc \in {"parsed", "resaved"} => depth >= 0 /\ Len(visit) = depth

(* C27: a parameter value that ends with one or more line breaks, written by
   save_txt as a heredoc and read by load_txt, keeps them: only the one line
   break before the terminator line is taken off the heredoc's lines *)
C27_TrailingBreaksKept ==
  pc = "loaded_txt" =>
    LET was == AllParams(objs, 1)
        got == AllParams(loaded.h, 1)
    IN \A k \in 1..Len(was) :
         (was[k] # <<>> /\ was[k][Len(was[k])] \in {CR, LF})
           => (~loaded.err /\ Len(got) >= k /\ got[k] = was[k])

(* the entry records save writes for the container id itself *)
Records(h, id) ==
  IF h[id].sorted THEN Len(SortedWalk(h[id].map)) ELSE Len(h[id].map)

(* C28: for every container save writes, sorted or not, with or without
   duplicate keys, the entry count in its header equals the number of entry
   records written for it, so load of the bytes of the root reads every byte
   and ends with the cursor at the end of the stream *)
C28_CountMatchesRecords ==
  pc = "loaded" =>
    /\ \A id \in 1..Len(objs) : get_int(save(objs, id), 1) = Records(objs, id)
    /\ ~loaded.err
    /\ loaded.pos = Len(stream)

(* C29: in a container whose sorted flag is true, after any sequence of add,
   add_par, add_block, set and del, the count on the first entry of each key
   is the number of entries stored under the key *)
C29_CountIsEntries ==
  \A id \in Ids : objs[id].sorted =>
    \A name \in Names : Contains(objs[id].map, name) =>
      objs[id].map[FirstIdx(objs[id].map, name)].count = Len(getall(objs[id].map, name))

(* C30: a DataTable of any number of entries, written by save at any start
   offset of a stream and read back by load from that offset with the written
   size, gives the same byte strings in the same order *)
C30_TableRoundTrip ==
  pc = "table_loaded" => (ret.out = "ok" /\ ret.val = orig)

=============================================================================
